---- MODULE Spec2Model ----
(***************************************************************************)
(* Prefix-cache core of sglang: the prefetch engine                        *)
(* (managers/prefetch_manager.py), the eviction strategies                 *)
(* (mem_cache/evict_policy.py) and the parts of the radix tree they act    *)
(* on.  The radix tree itself (match_prefix, insert, evict, unlock) and    *)
(* the allocator are not part of the sources at hand; they are modelled    *)
(* from their description and marked as such in the model map.             *)
(***************************************************************************)
EXTENDS Integers, Sequences, FiniteSets, TLC

VARIABLES
    value,                  \* node.value: None or a sequence of device slots
    host_value,             \* node.host_value: None or a sequence of host slots
    is_prefetching,         \* node.is_prefetching
    pending_gpu_indices,    \* node.pending_gpu_indices
    prefetch_event,         \* node.prefetch_event: None or an event object
    lock_count,             \* node.lock_count
    last_access_time,       \* node.last_access_time
    creation_time,          \* node.creation_time
    hit_count,              \* node.hit_count
    priority,               \* node.priority
    workflow_eviction_value,\* node.workflow_eviction_value: None or a number
    strategy,               \* the eviction strategy configured at construction
    host_tier,              \* whether evicted nodes are demoted to host memory
    held,                   \* held[n]: unreleased match_prefix results ending at n
    free,                   \* allocator: the free device slots
    stream,                 \* self.stream: work enqueued on the transfer lane
    signalled,              \* events the transfer lane has passed
    copied,                 \* nodes whose outstanding copy has been carried out
    reserved,               \* reserved[n]: what alloc_gpu last returned for n
    clock,                  \* the time source read by the tree
    total_device_tokens,    \* the tree's aggregate behind total_size()
    evictable_device_tokens,\* the tree's aggregate behind evictable_size()
    protected_device_tokens,\* the tree's aggregate behind protected_size()
    enable_cache_timeseries,\* whether the cache keeps a time series tracker
    max_history_seconds,    \* tracker.max_history_seconds
    snapshot_interval,      \* tracker.snapshot_interval
    _snapshots,             \* tracker._snapshots, oldest first
    _total_requests,        \* tracker._total_requests
    _hit_tokens,            \* tracker._hit_tokens
    _requested_tokens,      \* tracker._requested_tokens
    _last_snapshot_time,    \* tracker._last_snapshot_time
    last                    \* the last call made and what it did

nodeVars == <<value, host_value, is_prefetching, pending_gpu_indices,
              prefetch_event>>
metaVars == <<last_access_time, creation_time, hit_count, priority,
              workflow_eviction_value>>
laneVars == <<stream, signalled, copied>>
confVars == <<strategy, host_tier, enable_cache_timeseries,
              max_history_seconds, snapshot_interval>>
sizeVars == <<total_device_tokens, evictable_device_tokens,
              protected_device_tokens>>
trackerVars == <<_snapshots, _total_requests, _hit_tokens, _requested_tokens,
                 _last_snapshot_time>>
vars == <<value, host_value, is_prefetching, pending_gpu_indices,
          prefetch_event, lock_count, last_access_time, creation_time,
          hit_count, priority, workflow_eviction_value, strategy, host_tier,
          held, free, stream, signalled, copied, reserved, clock,
          total_device_tokens, evictable_device_tokens,
          protected_device_tokens, enable_cache_timeseries,
          max_history_seconds, snapshot_interval, _snapshots,
          _total_requests, _hit_tokens, _requested_tokens,
          _last_snapshot_time, last>>

(* ------------------------------ bounds --------------------------------- *)
NumNodes == 2     \* nodes below the root
NumSlots == 3     \* device slots in the pool
MaxTime == 1      \* last reading of the clock
MaxHits == 1      \* lookups that hold a node, and hits counted on it
MaxMeta == 1      \* largest priority and largest prediction handed to insert
MaxRequests == 1  \* lookups the tracker counts
MaxNow == 2       \* readings of the wall clock after the first
MaxInterval == 2  \* longest snapshot_interval configured
MaxHistory == 1   \* longest max_history_seconds configured
MaxUncounted == 2 \* tokens prefetched into the device
MaxTokens == 1    \* longest request handed to record_match

\* Python's None.  Every optional field holds None or a sequence: a list of
\* slots, or a one-element sequence boxing an event or a number.
None == <<-1>>
Nodes == 1..NumNodes
Slots == 1..NumSlots

(* ----------------------------- tree shape ------------------------------ *)
\* Odd nodes hang off the root (0), an even node n hangs off n - 1.
Parent(n) == IF n % 2 = 1 THEN 0 ELSE n - 1
Children(n) == {c \in Nodes : Parent(c) = n}
\* Number of tokens on the edge into n, i.e. len(node.key).
KeyLen(n) == IF n % 2 = 1 THEN 2 ELSE 1
\* The tokens of every edge, as a sequence per node.
KeyLens == [n \in Nodes |-> [i \in 1..KeyLen(n) |-> i]]
\* The host slots a demoted copy of n occupies.
HostSeq(n) == [i \in 1..KeyLen(n) |-> 4 * n + i]

RECURSIVE PathTo(_)
\* The nodes from the root (excluded) down to n.
PathTo(n) == IF n = 0 THEN <<>> ELSE Append(PathTo(Parent(n)), n)

Range(s) == {s[i] : i \in DOMAIN s}

(* ------------------------- external allocator -------------------------- *)
Min(S) == CHOOSE x \in S : \A y \in S : x <= y

RECURSIVE FirstFree(_, _)
\* The k lowest free slots, in increasing order.
FirstFree(F, k) ==
    IF k = 0 THEN <<>> ELSE <<Min(F)>> \o FirstFree(F \ {Min(F)}, k - 1)

\* mem.alloc_gpu(needed_slots): the slots, or None when the pool cannot
\* serve the request (exhausted or fragmented).
alloc_gpu(F, needed_slots) ==
    IF needed_slots <= Cardinality(F)
    THEN {None, FirstFree(F, needed_slots)}
    ELSE {None}

(* --------------------------- transfer lane ----------------------------- *)
CopyItem(n, src, dst) == [kind |-> "copy", node |-> n, src |-> src, dst |-> dst]
EventItem(e) == [kind |-> "event", event |-> e]

StreamEvents == {stream[i].event : i \in {j \in DOMAIN stream : stream[j].kind = "event"}}

\* torch.cuda.Event(): a fresh object for the event request_prefetch
\* stores on node n.  The event the node held before is unreferenced once
\* the field is overwritten, unless the lane still has it; the new object
\* takes the first name of the node that the lane does not hold.
EventIds(n) == {2 * n - 1, 2 * n}
NewEvent(n) == Min(EventIds(n) \ StreamEvents)

\* event.query()
query(e) == e[1] \in signalled

\* The lane carries out the work at its head, in order of issue.
StreamStep ==
    /\ stream # <<>>
    /\ LET item == Head(stream) IN
        /\ stream' = Tail(stream)
        /\ IF item.kind = "copy"
           THEN /\ copied' = copied \cup {item.node}
                /\ signalled' = signalled
           ELSE /\ signalled' = signalled \cup {item.event}
                /\ copied' = copied
        /\ last' = [op |-> "lane"]
    /\ UNCHANGED <<nodeVars, metaVars, lock_count, confVars, held, free,
                   reserved, clock, sizeVars, trackerVars>>

(* --------------------------- PrefetchManager --------------------------- *)
\* The three validation checks that make request_prefetch return at once.
returns_early_nobusy(node) ==
    \/ value[node] # None
    \/ host_value[node] = None

returns_early(node) ==
    \/ value[node] # None
    \/ host_value[node] = None
    \/ is_prefetching[node]

\* A call that returned from the validation checks: nothing was asked of
\* the allocator and nothing was put on the lane.
return_early(node) ==
    /\ last' = [op |-> "request_prefetch", node |-> node, asked |-> <<>>,
                ret |-> None, issued |-> FALSE]
    /\ UNCHANGED <<nodeVars, laneVars, free, reserved>>

needed_slots_more(node) == Len(host_value[node]) + 1

needed_slots(node) == Len(host_value[node])

abort_full_flagged(node) ==
    /\ is_prefetching' = [is_prefetching EXCEPT ![node] = TRUE]
    /\ last' = [op |-> "request_prefetch", node |-> node,
                asked |-> <<needed_slots(node)>>, ret |-> None,
                issued |-> FALSE]
    /\ UNCHANGED <<value, host_value, pending_gpu_indices, prefetch_event,
                   laneVars, free, reserved>>

\* alloc_gpu returned None: "GPU is full, abort safely".
abort_full(node) ==
    /\ last' = [op |-> "request_prefetch", node |-> node,
                asked |-> <<needed_slots(node)>>, ret |-> None,
                issued |-> FALSE]
    /\ UNCHANGED <<nodeVars, laneVars, free, reserved>>

start_transfer_eager(node, gpu_indices) ==
    LET event == <<NewEvent(node)>> IN
    /\ free' = free \ Range(gpu_indices)
    /\ reserved' = [reserved EXCEPT ![node] = gpu_indices]
    /\ is_prefetching' = [is_prefetching EXCEPT ![node] = TRUE]
    /\ pending_gpu_indices' = [pending_gpu_indices EXCEPT ![node] = gpu_indices]
    /\ value' = [value EXCEPT ![node] = gpu_indices]
    /\ stream' = stream \o <<CopyItem(node, host_value[node], gpu_indices),
                             EventItem(event[1])>>
    /\ signalled' = signalled \ {event[1]}
    /\ copied' = copied \ {node}
    /\ prefetch_event' = [prefetch_event EXCEPT ![node] = event]
    /\ last' = [op |-> "request_prefetch", node |-> node,
                asked |-> <<needed_slots(node)>>, ret |-> gpu_indices,
                issued |-> TRUE]
    /\ UNCHANGED host_value

start_transfer_event_first(node, gpu_indices) ==
    LET event == <<NewEvent(node)>> IN
    /\ free' = free \ Range(gpu_indices)
    /\ reserved' = [reserved EXCEPT ![node] = gpu_indices]
    /\ is_prefetching' = [is_prefetching EXCEPT ![node] = TRUE]
    /\ pending_gpu_indices' = [pending_gpu_indices EXCEPT ![node] = gpu_indices]
    /\ stream' = stream \o <<EventItem(event[1]),
                             CopyItem(node, host_value[node], gpu_indices)>>
    /\ signalled' = signalled \ {event[1]}
    /\ copied' = copied \ {node}
    /\ prefetch_event' = [prefetch_event EXCEPT ![node] = event]
    /\ last' = [op |-> "request_prefetch", node |-> node,
                asked |-> <<needed_slots(node)>>, ret |-> gpu_indices,
                issued |-> TRUE]
    /\ UNCHANGED <<value, host_value>>

\* Steps 2 and 3: flag the node, keep the reservation aside, enqueue the
\* copy on the lane and record an event behind it.
start_transfer(node, gpu_indices) ==
    LET event == <<NewEvent(node)>> IN
    /\ free' = free \ Range(gpu_indices)
    /\ reserved' = [reserved EXCEPT ![node] = gpu_indices]
    /\ is_prefetching' = [is_prefetching EXCEPT ![node] = TRUE]
    /\ pending_gpu_indices' = [pending_gpu_indices EXCEPT ![node] = gpu_indices]
    /\ stream' = stream \o <<CopyItem(node, host_value[node], gpu_indices),
                             EventItem(event[1])>>
    /\ signalled' = signalled \ {event[1]}
    /\ copied' = copied \ {node}
    /\ prefetch_event' = [prefetch_event EXCEPT ![node] = event]
    /\ last' = [op |-> "request_prefetch", node |-> node,
                asked |-> <<needed_slots(node)>>, ret |-> gpu_indices,
                issued |-> TRUE]
    /\ UNCHANGED <<value, host_value>>

request_prefetch(node) ==
    IF returns_early(node) THEN return_early(node)
    ELSE \E gpu_indices \in alloc_gpu(free, needed_slots(node)) :
            IF gpu_indices = None THEN abort_full(node)
            ELSE start_transfer(node, gpu_indices)

RequestPrefetch ==
    /\ \E node \in Nodes : request_prefetch(node)
    /\ UNCHANGED <<metaVars, lock_count, confVars, held, clock, sizeVars,
                   trackerVars>>

\* tree.get_all_nodes()
get_all_nodes == Nodes

loading_nodes == {n \in get_all_nodes : is_prefetching[n]}

completed_nodes_unpolled == loading_nodes

\* The nodes whose event reports completion when tick polls it.  A copy
\* that finishes while tick is looping is seen either by this tick or by
\* the next one, which is the same as finishing just before or just after
\* this tick, so tick is taken as one step.
completed_nodes == {n \in loading_nodes : query(prefetch_event[n])}

committed_value_host(n) == host_value[n]

committed_value_cleared(n) == None

\* "Commit the new indices"
committed_value(n) == pending_gpu_indices[n]

committed_flag_kept(n) == is_prefetching[n]

\* "Mark as fully loaded"
committed_flag(n) == FALSE

tick ==
    /\ is_prefetching' =
           [n \in Nodes |-> IF n \in completed_nodes THEN committed_flag(n)
                            ELSE is_prefetching[n]]
    /\ value' =
           [n \in Nodes |-> IF n \in completed_nodes THEN committed_value(n)
                            ELSE value[n]]
    /\ pending_gpu_indices' =
           [n \in Nodes |-> IF n \in completed_nodes THEN None
                            ELSE pending_gpu_indices[n]]
    /\ last' = [op |-> "tick"]
    /\ UNCHANGED <<host_value, prefetch_event, laneVars, free, reserved>>

Tick ==
    /\ tick
    /\ UNCHANGED <<metaVars, lock_count, confVars, held, clock, sizeVars,
                   trackerVars>>

(* ------------------------- eviction strategies ------------------------- *)
Strategies == {"lru", "lfu", "fifo", "mru", "filo", "priority",
               "steps_to_execution", "lmu"}

\* The key StepsToExecutionStrategy returns for a node without a prediction.
Sentinel == 9999999

RECURSIVE SubtreeTokens(_, _, _)
\* Resident tokens of the nodes of S and of everything below them.
SubtreeTokens(val, S, depth) ==
    IF S = {} \/ depth = 0 THEN 0
    ELSE LET n == Min(S) IN
         (IF val[n] = None THEN 0 ELSE Len(val[n]))
         + SubtreeTokens(val, Children(n), depth - 1)
         + SubtreeTokens(val, S \ {n}, depth)

\* node.get_agent_leaf_memory()
get_agent_leaf_memory(val, n) == SubtreeTokens(val, {n}, NumNodes)

get_priority_swapped(strat, val, n) ==
    CASE strat = "lru" -> <<last_access_time[n]>>
      [] strat = "lfu" -> <<last_access_time[n], hit_count[n]>>
      [] strat = "fifo" -> <<creation_time[n]>>
      [] strat = "mru" -> <<-last_access_time[n]>>
      [] strat = "filo" -> <<-creation_time[n]>>
      [] strat = "priority" -> <<priority[n], last_access_time[n]>>
      [] strat = "steps_to_execution" ->
            IF workflow_eviction_value[n] = None THEN <<-Sentinel>>
            ELSE <<-workflow_eviction_value[n][1]>>
      [] strat = "lmu" -> <<get_agent_leaf_memory(val, n)>>

\* EvictionStrategy.get_priority(node); a scalar key is a one-element tuple.
get_priority(strat, val, n) ==
    CASE strat = "lru" -> <<last_access_time[n]>>
      [] strat = "lfu" -> <<hit_count[n], last_access_time[n]>>
      [] strat = "fifo" -> <<creation_time[n]>>
      [] strat = "mru" -> <<-last_access_time[n]>>
      [] strat = "filo" -> <<-creation_time[n]>>
      [] strat = "priority" -> <<priority[n], last_access_time[n]>>
      [] strat = "steps_to_execution" ->
            IF workflow_eviction_value[n] = None THEN <<-Sentinel>>
            ELSE <<-workflow_eviction_value[n][1]>>
      [] strat = "lmu" -> <<get_agent_leaf_memory(val, n)>>

\* The node fields each strategy's get_priority reads.
Reads(strat) ==
    CASE strat = "lru" -> {"last_access_time"}
      [] strat = "lfu" -> {"hit_count", "last_access_time"}
      [] strat = "fifo" -> {"creation_time"}
      [] strat = "mru" -> {"last_access_time"}
      [] strat = "filo" -> {"creation_time"}
      [] strat = "priority" -> {"priority", "last_access_time"}
      [] strat = "steps_to_execution" -> {"workflow_eviction_value"}
      [] strat = "lmu" -> {}

\* Nothing but get_priority reads the metadata, so a field the configured
\* strategy never reads cannot influence the tree; such a field is left at
\* its initial value instead of being followed.
Tracked(field) == field \in Reads(strategy)

\* Python's < on the keys: numbers, or tuples compared position by position.
KeyLess(a, b) ==
    \/ a[1] < b[1]
    \/ a[1] = b[1] /\ Len(a) > 1 /\ a[2] < b[2]

priority_writes_counting(n) ==
    /\ hit_count' = [hit_count EXCEPT
                        ![n] = IF @ < MaxHits THEN @ + 1 ELSE @]
    /\ UNCHANGED <<nodeVars, last_access_time, creation_time, priority,
                   workflow_eviction_value, lock_count, confVars>>

\* What a call of get_priority on node n writes: nothing.
priority_writes(n) ==
    UNCHANGED <<nodeVars, metaVars, lock_count, confVars>>

\* The configured strategy ranks a resident node.
GetPriority ==
    /\ \E n \in {m \in Nodes : value[m] # None} :
        /\ priority_writes(n)
        /\ last' = [op |-> "get_priority", node |-> n,
                    key |-> get_priority(strategy, value, n)]
    /\ UNCHANGED <<laneVars, held, free, reserved, clock, sizeVars,
                   trackerVars>>

(* -------------------------- aggregate counters ------------------------- *)
RECURSIVE Tokens(_, _)
\* The device tokens the nodes of S hold.
Tokens(val, S) ==
    IF S = {} THEN 0
    ELSE LET n == Min(S) IN
         (IF val[n] = None THEN 0 ELSE Len(val[n])) + Tokens(val, S \ {n})

\* The aggregates have one reader, the tracker's take_snapshot; a cache
\* without a tracker leaves them at their initial value.
total_size == total_device_tokens
evictable_size == evictable_device_tokens
protected_size == protected_device_tokens

\* The first lock on the nodes of S: their tokens become protected.
sizes_on_lock(S) ==
    IF enable_cache_timeseries
    THEN /\ evictable_device_tokens' = evictable_device_tokens - Tokens(value, S)
         /\ protected_device_tokens' = protected_device_tokens + Tokens(value, S)
         /\ UNCHANGED total_device_tokens
    ELSE UNCHANGED sizeVars

\* The last lock on the nodes of S is released: their tokens are evictable.
sizes_on_unlock(S) ==
    IF enable_cache_timeseries
    THEN /\ evictable_device_tokens' = evictable_device_tokens + Tokens(value, S)
         /\ protected_device_tokens' = protected_device_tokens - Tokens(value, S)
         /\ UNCHANGED total_device_tokens
    ELSE UNCHANGED sizeVars

\* A new, unlocked node of k tokens.
sizes_on_insert(k) ==
    IF enable_cache_timeseries
    THEN /\ total_device_tokens' = total_device_tokens + k
         /\ evictable_device_tokens' = evictable_device_tokens + k
         /\ UNCHANGED protected_device_tokens
    ELSE UNCHANGED sizeVars

\* The nodes of E lose their device tokens.
sizes_on_evict(E) ==
    IF enable_cache_timeseries
    THEN /\ total_device_tokens' = total_device_tokens - Tokens(value, E)
         /\ evictable_device_tokens' = evictable_device_tokens - Tokens(value, E)
         /\ UNCHANGED protected_device_tokens
    ELSE UNCHANGED sizeVars

(* ----------------------- CacheTimeSeriesTracker ------------------------ *)
\* record_match(matched_tokens, requested_tokens)
record_match_swapped(matched_tokens, requested_tokens) ==
    /\ _total_requests' = _total_requests + 1
    /\ _hit_tokens' = _hit_tokens + requested_tokens
    /\ _requested_tokens' = _requested_tokens + matched_tokens
    /\ UNCHANGED <<_snapshots, _last_snapshot_time>>

record_match(matched_tokens, requested_tokens) ==
    /\ _total_requests' = _total_requests + 1
    /\ _hit_tokens' = _hit_tokens + matched_tokens
    /\ _requested_tokens' = _requested_tokens + requested_tokens
    /\ UNCHANGED <<_snapshots, _last_snapshot_time>>

\* The nodes the traversal from the root reaches: a node is in its
\* parent's children while it or a node below it has any copy.
Attached(n) ==
    LET Own(m) == value[m] # None \/ host_value[m] # None \/ is_prefetching[m]
    IN Own(n) \/ \E c \in Children(n) : Own(c)

Max(S) == CHOOSE x \in S : \A y \in S : y <= x

\* _collect_node_stats(cache); the average is kept as <<sum, count>>.
_collect_node_stats ==
    LET visited == {n \in Nodes : Attached(n)}
        sized == {n \in visited : value[n] # None /\ Len(value[n]) > 0}
        node_sizes == {Len(value[n]) : n \in sized}
        leaves == {n \in visited : \A c \in Children(n) : ~Attached(c)}
        bucket(lo, hi) == Cardinality({n \in sized : lo <= Len(value[n])
                                                     /\ Len(value[n]) < hi})
    IN IF sized = {}
       THEN [node_count |-> 0, leaf_count |-> 0, avg_node_tokens |-> <<0, 1>>,
             max_node_tokens |-> 0, min_node_tokens |-> 0,
             size_histogram |-> <<0, 0, 0, 0>>,
             depth_distribution |-> <<>>]
       ELSE [node_count |-> Cardinality(sized),
             leaf_count |-> Cardinality(leaves),
             avg_node_tokens |-> <<Tokens(value, sized), Cardinality(sized)>>,
             max_node_tokens |-> Max(node_sizes),
             min_node_tokens |-> Min(node_sizes),
             size_histogram |-> <<bucket(0, 100), bucket(100, 500),
                                  bucket(500, 1000),
                                  Cardinality({n \in sized : Len(value[n]) >= 1000})>>,
             depth_distribution |->
                 [d \in {Len(PathTo(n)) : n \in sized} |->
                     Cardinality({n \in sized : Len(PathTo(n)) = d})]]

\* cache.token_to_kv_pool_allocator.size
pool_size == NumSlots

CacheSnapshot_mixed(now) ==
    [timestamp |-> now,
     total_tokens |-> total_size,
     evictable_tokens |-> evictable_size,
     protected_tokens |-> evictable_size,
     pool_size |-> pool_size,
     hit_tokens |-> _hit_tokens,
     requested_tokens |-> _requested_tokens,
     request_count |-> _total_requests,
     node_stats |-> _collect_node_stats]

\* The snapshot take_snapshot builds at time now.
CacheSnapshot(now) ==
    [timestamp |-> now,
     total_tokens |-> total_size,
     evictable_tokens |-> evictable_size,
     protected_tokens |-> protected_size,
     pool_size |-> pool_size,
     hit_tokens |-> _hit_tokens,
     requested_tokens |-> _requested_tokens,
     request_count |-> _total_requests,
     node_stats |-> _collect_node_stats]

\* CacheSnapshot.to_dict(); a quotient is kept as <<numerator, denominator>>.
to_dict(snap) ==
    [timestamp |-> snap.timestamp,
     total_tokens |-> snap.total_tokens,
     evictable_tokens |-> snap.evictable_tokens,
     protected_tokens |-> snap.protected_tokens,
     utilization |-> IF snap.pool_size > 0
                     THEN <<snap.total_tokens, snap.pool_size>> ELSE <<0, 1>>,
     hit_tokens |-> snap.hit_tokens,
     miss_tokens |-> snap.requested_tokens - snap.hit_tokens,
     request_count |-> snap.request_count,
     node_stats |-> snap.node_stats]

rate_limited_inclusive(now) ==
    now - _last_snapshot_time <= snapshot_interval

\* "Rate limit snapshots"
rate_limited(now) == now - _last_snapshot_time < snapshot_interval

cutoff(now) == now - max_history_seconds

RECURSIVE Prune_inclusive(_, _)
Prune_inclusive(q, c) ==
    IF q # <<>> /\ Head(q).timestamp <= c THEN Prune_inclusive(Tail(q), c)
    ELSE q

RECURSIVE Prune(_, _)
\* "Prune old entries": popleft while the oldest entry is before the cutoff.
Prune(q, c) ==
    IF q # <<>> /\ Head(q).timestamp < c THEN Prune(Tail(q), c) ELSE q

\* take_snapshot(cache) with time.time() returning now; ret is the
\* returned snapshot boxed, or empty for None, and pruned the number of
\* entries the call dropped.
take_snapshot(now) ==
    IF rate_limited(now)
    THEN /\ last' = [op |-> "take_snapshot", now |-> now, ret |-> <<>>,
                     pruned |-> 0]
         /\ UNCHANGED trackerVars
    ELSE LET snapshot == CacheSnapshot(now) IN
         /\ _last_snapshot_time' = now
         /\ _snapshots' = Prune(Append(_snapshots, snapshot), cutoff(now))
         /\ last' = [op |-> "take_snapshot", now |-> now,
                     ret |-> <<snapshot>>,
                     pruned |-> Len(_snapshots) + 1 - Len(_snapshots')]
         /\ UNCHANGED <<_total_requests, _hit_tokens, _requested_tokens>>

\* get_stats_dict()
get_stats_dict ==
    LET latest == IF _snapshots # <<>> THEN <<_snapshots[Len(_snapshots)]>>
                  ELSE <<>>
        field(f) == IF latest # <<>> THEN latest[1][f] ELSE 0
    IN [total_tokens |-> field("total_tokens"),
        evictable_tokens |-> field("evictable_tokens"),
        protected_tokens |-> field("protected_tokens"),
        utilization |-> IF field("pool_size") > 0
                        THEN <<field("total_tokens"), field("pool_size")>>
                        ELSE <<0, 1>>,
        total_hit_tokens |-> _hit_tokens,
        total_miss_tokens |-> _requested_tokens - _hit_tokens,
        total_requests |-> _total_requests]

RECURSIVE SelectFrom(_, _)
\* [s for s in snapshots if s.timestamp >= c]
SelectFrom(q, c) ==
    IF q = <<>> THEN <<>>
    ELSE (IF Head(q).timestamp >= c THEN <<Head(q)>> ELSE <<>>)
         \o SelectFrom(Tail(q), c)

\* get_history(window_seconds) with time.time() returning now; window is
\* None or the window boxed.
get_history(window, now) ==
    LET kept == IF window = None THEN _snapshots
                ELSE SelectFrom(_snapshots, now - window[1])
    IN [i \in DOMAIN kept |-> to_dict(kept[i])]

\* time.time(): seconds since 1970, far beyond any configured interval.
\* The wall clock may be set back between two calls, so every call reads
\* any of the times.
Times == MaxInterval..(MaxInterval + MaxNow)
Windows == {None} \cup {<<w>> : w \in 0..MaxHistory}

trackerFrame ==
    UNCHANGED <<nodeVars, metaVars, laneVars, confVars, sizeVars, lock_count,
                held, free, reserved, clock>>

\* A lookup reported to the tracker.
RecordMatch ==
    /\ enable_cache_timeseries
    /\ _total_requests < MaxRequests
    /\ \E requested_tokens \in 0..MaxTokens :
       \E matched_tokens \in 0..requested_tokens :
          /\ record_match(matched_tokens, requested_tokens)
          /\ last' = [op |-> "record_match", matched |-> matched_tokens,
                      requested |-> requested_tokens]
    /\ trackerFrame

TakeSnapshot ==
    /\ enable_cache_timeseries
    /\ \E now \in Times : take_snapshot(now)
    /\ trackerFrame

GetStatsDict ==
    /\ enable_cache_timeseries
    /\ last' = [op |-> "get_stats_dict", ret |-> get_stats_dict]
    /\ UNCHANGED trackerVars
    /\ trackerFrame

GetHistory ==
    /\ enable_cache_timeseries
    /\ \E window \in Windows, now \in Times :
          last' = [op |-> "get_history", window |-> window, now |-> now,
                   ret |-> get_history(window, now)]
    /\ UNCHANGED trackerVars
    /\ trackerFrame

(* ----------------------------- prefix tree ----------------------------- *)
RECURSIVE MatchedPath_skipping(_)
MatchedPath_skipping(path) ==
    IF path = <<>> THEN <<>>
    ELSE LET n == Head(path) IN
         IF value[n] = None \/ is_prefetching[n]
         THEN MatchedPath_skipping(Tail(path))
         ELSE <<n>> \o MatchedPath_skipping(Tail(path))

RECURSIVE MatchedPath(_)
\* The longest resident prefix of a path: the walk stops at the first node
\* whose value is absent or that is still prefetching.
MatchedPath(path) ==
    IF path = <<>> THEN <<>>
    ELSE LET n == Head(path) IN
         IF value[n] = None \/ is_prefetching[n] THEN <<>>
         ELSE <<n>> \o MatchedPath(Tail(path))

RECURSIVE Indices(_)
\* The device indices of the nodes of a path, concatenated.
Indices(path) ==
    IF path = <<>> THEN <<>> ELSE value[Head(path)] \o Indices(Tail(path))

\* match_prefix(tokens), for the token sequence that spells the path to t.
match_prefix(t) ==
    LET matched == MatchedPath(PathTo(t))
        M == Range(matched) IN
    /\ \A n \in M : lock_count[n] < MaxHits /\ hit_count[n] < MaxHits
    /\ sizes_on_lock({n \in M : lock_count[n] = 0})
    /\ IF enable_cache_timeseries
       THEN /\ _total_requests < MaxRequests
            /\ record_match(Len(Indices(matched)), Tokens(KeyLens, Range(PathTo(t))))
       ELSE UNCHANGED trackerVars
    /\ lock_count' = [n \in Nodes |-> IF n \in M THEN lock_count[n] + 1
                                      ELSE lock_count[n]]
    /\ last_access_time' =
           [n \in Nodes |-> IF n \in M /\ Tracked("last_access_time") THEN clock
                            ELSE last_access_time[n]]
    /\ hit_count' =
           [n \in Nodes |-> IF n \in M /\ Tracked("hit_count")
                            THEN hit_count[n] + 1 ELSE hit_count[n]]
    /\ held' = IF matched = <<>> THEN held
               ELSE [held EXCEPT ![matched[Len(matched)]] = @ + 1]
    /\ last' = [op |-> "match_prefix", matched |-> matched,
                indices |-> Indices(matched)]
    /\ UNCHANGED <<nodeVars, laneVars, creation_time, priority,
                   workflow_eviction_value, confVars, free, reserved, clock>>

MatchPrefix == \E t \in Nodes : match_prefix(t)

\* unlock(matched_node_path), for a path an earlier match_prefix returned.
unlock(t) ==
    LET M == Range(PathTo(t)) IN
    /\ held[t] > 0
    /\ held' = [held EXCEPT ![t] = @ - 1]
    /\ lock_count' = [n \in Nodes |-> IF n \in M THEN lock_count[n] - 1
                                      ELSE lock_count[n]]
    /\ sizes_on_unlock({n \in M : lock_count[n] = 1})
    /\ last' = [op |-> "unlock"]
    /\ UNCHANGED <<nodeVars, laneVars, metaVars, confVars, free, reserved,
                   clock, trackerVars>>

Unlock == \E t \in Nodes : unlock(t)

Priorities == 0..MaxMeta
\* The predictions handed to insert: none, a few steps, or more steps
\* than the strategy's sentinel.
Predictions == {None} \cup {<<k>> : k \in (1..MaxMeta) \cup {Sentinel + 1}}

\* insert(tokens, device_indices) for the uncached node n below a resident
\* parent; device_indices are slots the caller has just allocated.
insert(n, prio, wev) ==
    /\ value[n] = None /\ host_value[n] = None /\ ~is_prefetching[n]
    /\ IF Parent(n) = 0 THEN TRUE
       ELSE value[Parent(n)] # None /\ ~is_prefetching[Parent(n)]
    /\ KeyLen(n) <= Cardinality(free)
    /\ LET device_indices == FirstFree(free, KeyLen(n)) IN
        /\ value' = [value EXCEPT ![n] = device_indices]
        /\ free' = free \ Range(device_indices)
    /\ creation_time' =
           IF Tracked("creation_time")
           THEN [creation_time EXCEPT ![n] = clock] ELSE creation_time
    /\ last_access_time' =
           IF Tracked("last_access_time")
           THEN [last_access_time EXCEPT ![n] = clock] ELSE last_access_time
    /\ hit_count' = [hit_count EXCEPT ![n] = 0]
    /\ priority' =
           IF Tracked("priority")
           THEN [priority EXCEPT ![n] = prio] ELSE priority
    /\ workflow_eviction_value' =
           IF Tracked("workflow_eviction_value")
           THEN [workflow_eviction_value EXCEPT ![n] = wev]
           ELSE workflow_eviction_value
    /\ sizes_on_insert(KeyLen(n))
    /\ last' = [op |-> "insert"]
    /\ UNCHANGED <<host_value, is_prefetching, pending_gpu_indices,
                   prefetch_event, laneVars, lock_count, confVars, held,
                   reserved, clock, trackerVars>>

Insert == \E n \in Nodes, prio \in Priorities, wev \in Predictions :
              insert(n, prio, wev)

Evictable_locked(val, E) ==
    {n \in Nodes \ E :
        /\ val[n] # None
        /\ ~is_prefetching[n]
        /\ \A c \in Children(n) : val[c] = None}

\* The nodes evict may reclaim once the nodes of E are gone.
Evictable(val, E) ==
    {n \in Nodes \ E :
        /\ val[n] # None
        /\ lock_count[n] = 0
        /\ ~is_prefetching[n]
        /\ \A c \in Children(n) : val[c] = None}

\* The candidate with the lowest key; equal keys go in node order.
Lowest(val, C) ==
    CHOOSE n \in C : \A m \in C \ {n} :
        \/ KeyLess(get_priority(strategy, val, n), get_priority(strategy, val, m))
        \/ /\ ~KeyLess(get_priority(strategy, val, m), get_priority(strategy, val, n))
           /\ n < m

RECURSIVE EvictLoop(_, _, _, _)
\* The set of nodes evict reclaims: lowest key first, until needed
\* are free or no candidate is left.
EvictLoop(val, E, freed, needed) ==
    IF freed >= needed \/ Evictable(val, E) = {} THEN E
    ELSE LET n == Lowest(val, Evictable(val, E)) IN
         EvictLoop([val EXCEPT ![n] = None], E \cup {n},
                   freed + Len(val[n]), needed)

RECURSIVE SlotsOf(_)
SlotsOf(E) ==
    IF E = {} THEN {}
    ELSE LET n == Min(E) IN Range(value[n]) \cup SlotsOf(E \ {n})

\* evict(needed); with a host tier the evicted nodes keep a host copy.
\* A node left with neither a device nor a host copy leaves the tree: its
\* metadata is that of a node yet to be created.
evict(needed) ==
    LET E == EvictLoop(value, {}, 0, needed)
        Gone == {n \in E : ~host_tier /\ host_value[n] = None} IN
    /\ value' = [n \in Nodes |-> IF n \in E THEN None ELSE value[n]]
    /\ host_value' = [n \in Nodes |->
                        IF n \in E /\ host_tier /\ host_value[n] = None
                        THEN HostSeq(n) ELSE host_value[n]]
    /\ free' = free \cup SlotsOf(E)
    /\ reserved' = [n \in Nodes |-> IF n \in E THEN None ELSE reserved[n]]
    /\ last_access_time' = [n \in Nodes |-> IF n \in Gone THEN 0
                                            ELSE last_access_time[n]]
    /\ creation_time' = [n \in Nodes |-> IF n \in Gone THEN 0
                                         ELSE creation_time[n]]
    /\ hit_count' = [n \in Nodes |-> IF n \in Gone THEN 0 ELSE hit_count[n]]
    /\ priority' = [n \in Nodes |-> IF n \in Gone THEN 0 ELSE priority[n]]
    /\ workflow_eviction_value' =
           [n \in Nodes |-> IF n \in Gone THEN None
                            ELSE workflow_eviction_value[n]]
    /\ sizes_on_evict(E)
    /\ last' = [op |-> "evict", evicted |-> E]
    /\ UNCHANGED <<is_prefetching, pending_gpu_indices, prefetch_event,
                   laneVars, lock_count, confVars, held, clock, trackerVars>>

Evict == \E needed \in 1..NumSlots : evict(needed)

\* Time passes.
AdvanceClock ==
    /\ Tracked("last_access_time") \/ Tracked("creation_time")
    /\ clock < MaxTime
    /\ clock' = clock + 1
    /\ last' = [op |-> "time"]
    /\ UNCHANGED <<nodeVars, laneVars, metaVars, lock_count, confVars, held,
                   free, reserved, sizeVars, trackerVars>>

(* --------------------------- specification ----------------------------- *)
\* The host copies a node may start with: none, an empty one, a full one.
HostChoices(n) == {None, <<>>, HostSeq(n)}

\* CacheInitParams.eviction_policy
eviction_policy == "lru"
\* CacheInitParams.cache_timeseries_interval and cache_timeseries_history
cache_timeseries_interval == 5
cache_timeseries_history == 300

InitNodes ==
    /\ value = [n \in Nodes |-> None]
    /\ is_prefetching = [n \in Nodes |-> FALSE]
    /\ pending_gpu_indices = [n \in Nodes |-> None]
    /\ prefetch_event = [n \in Nodes |-> None]
    /\ lock_count = [n \in Nodes |-> 0]
    /\ last_access_time = [n \in Nodes |-> 0]
    /\ creation_time = [n \in Nodes |-> 0]
    /\ hit_count = [n \in Nodes |-> 0]
    /\ priority = [n \in Nodes |-> 0]
    /\ workflow_eviction_value = [n \in Nodes |-> None]
    /\ held = [n \in Nodes |-> 0]
    /\ free = Slots
    /\ stream = <<>>
    /\ signalled = {}
    /\ copied = {}
    /\ reserved = [n \in Nodes |-> None]
    /\ clock = 0
    /\ total_device_tokens = 0
    /\ evictable_device_tokens = 0
    /\ protected_device_tokens = 0
    /\ _snapshots = <<>>
    /\ _total_requests = 0
    /\ _hit_tokens = 0
    /\ _requested_tokens = 0
    /\ _last_snapshot_time = 0
    /\ last = [op |-> "init"]

\* The prefetch engine over a tree of cold and host-resident nodes, with
\* the default eviction policy.
Init ==
    /\ InitNodes
    /\ host_value \in {h \in [Nodes -> UNION {HostChoices(n) : n \in Nodes}] :
                          \A n \in Nodes : h[n] \in HostChoices(n)}
    /\ strategy = eviction_policy
    /\ host_tier = TRUE
    /\ enable_cache_timeseries = FALSE
    /\ max_history_seconds = cache_timeseries_history
    /\ snapshot_interval = cache_timeseries_interval

Next ==
    \/ RequestPrefetch
    \/ Tick
    \/ StreamStep
    \/ Evict

Spec == Init /\ [][Next]_vars

\* The scheduler calls tick() in every iteration and the transfer lane
\* carries out whatever is enqueued on it.
LiveSpec == Spec /\ WF_vars(Tick) /\ WF_vars(StreamStep)

\* The prefetch engine interleaved with lookups.
MatchNext ==
    \/ RequestPrefetch
    \/ Tick
    \/ StreamStep
    \/ MatchPrefix
    \/ Unlock

MatchSpec == Init /\ [][MatchNext]_vars

\* The tree on its own, under each of the eviction strategies.
TreeInit ==
    /\ InitNodes
    /\ host_value = [n \in Nodes |-> None]
    /\ strategy \in Strategies
    /\ host_tier = FALSE
    /\ enable_cache_timeseries = FALSE
    /\ max_history_seconds = cache_timeseries_history
    /\ snapshot_interval = cache_timeseries_interval

TreeNext ==
    \/ Insert
    \/ MatchPrefix
    \/ Unlock
    \/ Evict
    \/ AdvanceClock
    \/ GetPriority

TreeSpec == TreeInit /\ [][TreeNext]_vars

\* The tracker on its own, for every configuration.
TrackInit ==
    /\ InitNodes
    /\ host_value = [n \in Nodes |-> None]
    /\ strategy = eviction_policy
    /\ host_tier = FALSE
    /\ enable_cache_timeseries = TRUE
    /\ max_history_seconds \in 0..MaxHistory
    /\ snapshot_interval \in 1..MaxInterval

TrackNext ==
    \/ RecordMatch
    \/ TakeSnapshot
    \/ GetStatsDict
    \/ GetHistory

TrackSpec == TrackInit /\ [][TrackNext]_vars

\* The device tokens that tick committed; the aggregates do not hold them.
Uncounted == Tokens(value, Nodes) - total_device_tokens
InFlight == Tokens(pending_gpu_indices, {n \in Nodes : is_prefetching[n]})

\* The scheduler asks for a prefetch.
SchedulePrefetch ==
    /\ \E node \in Nodes :
        /\ host_value[node] # None
        /\ Uncounted + InFlight + Len(host_value[node]) <= MaxUncounted
        /\ request_prefetch(node)
    /\ UNCHANGED <<metaVars, lock_count, confVars, held, clock, sizeVars,
                   trackerVars>>

\* A rate-limited take_snapshot changes nothing; the cache is followed
\* through the calls that are due.
DueSnapshot ==
    /\ \E now \in Times : ~rate_limited(now) /\ take_snapshot(now)
    /\ trackerFrame

\* The whole cache with its tracker: tree, prefetch engine and snapshots,
\* over a tree whose last node was demoted to host memory earlier.
CacheInit ==
    /\ InitNodes
    /\ host_value = [n \in Nodes |-> IF n = NumNodes THEN HostSeq(n) ELSE None]
    /\ strategy = eviction_policy
    /\ host_tier = FALSE
    /\ enable_cache_timeseries = TRUE
    /\ max_history_seconds = 0
    /\ snapshot_interval = MaxInterval + MaxNow

CacheNext ==
    \/ Insert
    \/ MatchPrefix
    \/ Unlock
    \/ Evict
    \/ SchedulePrefetch
    \/ Tick
    \/ StreamStep
    \/ DueSnapshot

CacheSpec == CacheInit /\ [][CacheNext]_vars

TypeOK ==
    /\ \A n \in Nodes : lock_count[n] \in 0..MaxHits
    /\ free \subseteq Slots

(* ------------------------------ properties ---------------------------- *)
IsRequest(l) == l.op = "request_prefetch"
HostResident(n) ==
    value[n] = None /\ host_value[n] # None /\ ~is_prefetching[n]
DeviceResident(n) == value[n] # None /\ ~is_prefetching[n]

\* C1: a node with is_prefetching = True has value = None and a non-empty
\* pending_gpu_indices reservation.
C1_PrefetchingHoldsReservation ==
    \A n \in Nodes :
        is_prefetching[n] =>
            /\ value[n] = None
            /\ pending_gpu_indices[n] # None
            /\ Len(pending_gpu_indices[n]) > 0

\* C2: when tick polls a prefetching node whose event reports completion,
\* the node's value becomes exactly the indices request_prefetch reserved
\* and stored as pending, is_prefetching becomes False and the pending
\* indices are cleared.
C2_TickCommitsReservation ==
    [][last'.op = "tick" =>
        \A n \in Nodes :
            (is_prefetching[n] /\ query(prefetch_event[n])) =>
                /\ pending_gpu_indices[n] = reserved[n]
                /\ value'[n] = reserved[n]
                /\ ~is_prefetching'[n]
                /\ pending_gpu_indices'[n] = None]_vars

C2_Committed ==
    /\ last.op = "tick"
    /\ \E n \in Nodes :
        /\ DeviceResident(n)
        /\ value[n] = reserved[n]
        /\ Len(value[n]) = 2
        /\ pending_gpu_indices[n] = None

\* C3: tick leaves a prefetching node whose event has not signalled
\* entirely unchanged, and a value is only ever set for a node whose event
\* had reported completion.
C3_TickWaitsForEvent ==
    [][/\ last'.op = "tick" =>
            \A n \in Nodes :
                (is_prefetching[n] /\ ~query(prefetch_event[n])) =>
                    /\ value'[n] = None
                    /\ value[n] = None
                    /\ is_prefetching'[n]
                    /\ pending_gpu_indices'[n] = pending_gpu_indices[n]
                    /\ prefetch_event'[n] = prefetch_event[n]
       /\ \A n \in Nodes :
            (value[n] = None /\ value'[n] # None) =>
                /\ prefetch_event[n] # None
                /\ query(prefetch_event[n])]_vars

C3_StillLoading ==
    /\ last.op = "tick"
    /\ \E n \in Nodes :
        /\ is_prefetching[n]
        /\ ~query(prefetch_event[n])
        /\ value[n] = None
        /\ \E m \in Nodes : DeviceResident(m)

\* C4: request_prefetch on a node whose value is set, whose host_value is
\* absent or that is already prefetching changes nothing, asks the
\* allocator for nothing and issues no copy.
C4_RequestIsNoOp ==
    [][IsRequest(last') =>
        LET n == last'.node IN
        (value[n] # None \/ host_value[n] = None \/ is_prefetching[n]) =>
            /\ last'.asked = <<>>
            /\ ~last'.issued
            /\ UNCHANGED <<nodeVars, laneVars, free, reserved, metaVars,
                           lock_count, held>>]_vars

C4_DuplicateRequest ==
    /\ IsRequest(last)
    /\ last.asked = <<>>
    /\ is_prefetching[last.node]

\* C5: when alloc_gpu returns no slots, request_prefetch leaves the node's
\* host_value, value, is_prefetching, pending indices and event unchanged,
\* issues no copy, and the node is still HOST_RESIDENT.
C5_FailedReservation ==
    [][(IsRequest(last') /\ last'.asked # <<>> /\ last'.ret = None) =>
            /\ UNCHANGED <<nodeVars, laneVars, free, reserved>>
            /\ ~last'.issued
            /\ LET n == last'.node IN
                /\ value'[n] = None
                /\ host_value'[n] # None
                /\ ~is_prefetching'[n]]_vars

C5_AllocatorRefused ==
    /\ IsRequest(last)
    /\ last.asked = <<2>>
    /\ last.ret = None
    /\ HostResident(last.node)

\* C6: on a HOST_RESIDENT node request_prefetch asks for exactly
\* len(host_value) slots and, when the allocator succeeds, flags the node,
\* stores the returned slots as pending, issues one copy from host_value to
\* those slots followed by an event it records on the node, and leaves
\* value and host_value unchanged.
C6_RequestStartsTransfer ==
    [][IsRequest(last') =>
        LET n == last'.node IN
        /\ HostResident(n) => last'.asked = <<Len(host_value[n])>>
        /\ last'.ret # None =>
            /\ HostResident(n)
            /\ Len(last'.ret) = Len(host_value[n])
            /\ is_prefetching'[n]
            /\ pending_gpu_indices'[n] = last'.ret
            /\ Len(stream') = Len(stream) + 2
            /\ SubSeq(stream', 1, Len(stream)) = stream
            /\ stream'[Len(stream) + 1] =
                   CopyItem(n, host_value[n], last'.ret)
            /\ stream'[Len(stream) + 2].kind = "event"
            /\ prefetch_event'[n] = <<stream'[Len(stream) + 2].event>>
            /\ prefetch_event'[n][1] \notin signalled'
            /\ value' = value
            /\ host_value' = host_value
            /\ \A m \in Nodes \ {n} :
                /\ is_prefetching'[m] = is_prefetching[m]
                /\ pending_gpu_indices'[m] = pending_gpu_indices[m]
                /\ prefetch_event'[m] = prefetch_event[m]]_vars

C6_TransferStarted ==
    /\ IsRequest(last)
    /\ last.ret # None
    /\ Len(last.ret) = 2
    /\ is_prefetching[last.node]
    /\ Len(stream) = 2

\* C7: match_prefix never reports a prefetching node as a hit: no matched
\* node is prefetching or lies below a prefetching node, and no pending
\* index of a prefetching node is among the returned indices.
C7_NoHitWhilePrefetching ==
    last.op = "match_prefix" =>
        /\ \A i \in DOMAIN last.matched :
            /\ \A a \in Range(PathTo(last.matched[i])) : ~is_prefetching[a]
            /\ PathTo(last.matched[i]) = SubSeq(last.matched, 1, i)
        /\ \A n \in Nodes :
            is_prefetching[n] =>
                Range(pending_gpu_indices[n]) \cap Range(last.indices) = {}

C7_StoppedAtPrefetching ==
    /\ last.op = "match_prefix"
    /\ last.matched = <<>>
    /\ \E n \in Nodes :
        /\ is_prefetching[n]
        /\ Parent(n) = 0
        /\ \E c \in Children(n) : DeviceResident(c)

\* C8: a node with is_prefetching = False has no completion handle.
C8_HandleOnlyWhilePrefetching ==
    \A n \in Nodes : ~is_prefetching[n] => prefetch_event[n] = None

\* C9: with tick called in every iteration and every copy completing, a
\* node that enters PREFETCHING eventually becomes DEVICE_RESIDENT; no step
\* other than tick takes a node out of PREFETCHING.
C9_PrefetchEventuallyCommits ==
    /\ \A n \in Nodes : is_prefetching[n] ~> DeviceResident(n)
    /\ [][\A n \in Nodes :
            (is_prefetching[n] /\ last'.op # "tick") => is_prefetching'[n]]_vars

C9_BecameResident ==
    \E n \in Nodes :
        /\ DeviceResident(n)
        /\ host_value[n] = HostSeq(n)
        /\ stream = <<>>
        /\ last.op = "tick"

\* C10: under each strategy evict never selects a node with lock_count > 0,
\* and no node loses its value while its lock_count is positive.
C10_LockedNeverEvicted ==
    [][/\ last'.op = "evict" => \A n \in last'.evicted : lock_count[n] = 0
       /\ \A n \in Nodes :
            (lock_count[n] > 0 /\ value[n] # None) => value'[n] = value[n]]_vars

C10_EvictedAroundLocked ==
    /\ last.op = "evict"
    /\ last.evicted # {}
    /\ \E n \in Nodes : lock_count[n] > 0 /\ value[n] # None

\* C12: under LFU the node with the smaller hit_count has the smaller key
\* and goes first whatever the last_access_time values are; with equal
\* hit_counts the node with the older last_access_time goes first; evict
\* never leaves a candidate behind for one with a larger key.
C12_LfuOrder ==
    [][strategy = "lfu" =>
        /\ \A a, b \in Nodes :
            LET ka == get_priority(strategy, value, a)
                kb == get_priority(strategy, value, b) IN
            (\/ hit_count[a] < hit_count[b]
             \/ /\ hit_count[a] = hit_count[b]
                /\ last_access_time[a] < last_access_time[b]) =>
                /\ KeyLess(ka, kb)
                /\ ~KeyLess(kb, ka)
                /\ Lowest(value, {a, b}) = a
        /\ last'.op = "evict" =>
            \A n \in last'.evicted \cap Evictable(value, {}) :
                \A m \in Evictable(value, {}) \ last'.evicted :
                    ~KeyLess(get_priority(strategy, value, m),
                             get_priority(strategy, value, n))]_vars

C12_FewerHitsButNewer ==
    /\ strategy = "lfu"
    /\ last.op = "get_priority"
    /\ \E b \in Nodes :
        /\ value[b] # None
        /\ hit_count[last.node] < hit_count[b]
        /\ last_access_time[last.node] > last_access_time[b]
        /\ KeyLess(last.key, get_priority(strategy, value, b))

\* C13: under the steps-to-execution strategy a node without a prediction
\* has a smaller key than every node with a prediction, whatever the
\* prediction is, and of two nodes with predictions the one with the larger
\* workflow_eviction_value has the smaller key.
C13_AbsentPredictionFirst ==
    strategy = "steps_to_execution" =>
        \A a, b \in {n \in Nodes : value[n] # None} :
            LET ka == get_priority(strategy, value, a)
                kb == get_priority(strategy, value, b) IN
            /\ (/\ workflow_eviction_value[a] = None
                /\ workflow_eviction_value[b] # None) => KeyLess(ka, kb)
            /\ (/\ workflow_eviction_value[a] # None
                /\ workflow_eviction_value[b] # None
                /\ workflow_eviction_value[a][1] > workflow_eviction_value[b][1])
                    => KeyLess(ka, kb)

C14_RateLimit ==
    /\ [][last'.op = "take_snapshot" =>
            IF last'.now - _last_snapshot_time < snapshot_interval
            THEN /\ last'.ret = <<>>
                 /\ UNCHANGED trackerVars
            ELSE /\ Len(last'.ret) = 1
                 /\ last'.ret[1].timestamp = last'.now
                 /\ \E k \in 0..Len(_snapshots) :
                      _snapshots' = SubSeq(Append(_snapshots, last'.ret[1]),
                                           k + 1, Len(_snapshots) + 1)
                 /\ _last_snapshot_time' = last'.now
                 /\ UNCHANGED <<_total_requests, _hit_tokens,
                                _requested_tokens>>]_vars
    /\ [](/\ _snapshots # <<>> =>
                _snapshots[Len(_snapshots)].timestamp = _last_snapshot_time
          /\ \A i \in 1..(Len(_snapshots) - 1) :
                _snapshots[i + 1].timestamp - _snapshots[i].timestamp
                    >= snapshot_interval)

C14_CalledTooSoon ==
    /\ last.op = "take_snapshot"
    /\ last.ret = <<>>
    /\ _snapshots # <<>>
    /\ last.now > _last_snapshot_time

\* C15: after a take_snapshot call that takes a snapshot at time now the
\* history is exactly the earlier snapshots that are not older than
\* now - max_history_seconds, in their order, followed by the snapshot just
\* taken; the history is ordered by timestamp, and so is what get_history
\* returns.
C15_HistoryWindow ==
    /\ [][(last'.op = "take_snapshot" /\ last'.ret # <<>>) =>
            LET c == last'.now - max_history_seconds IN
            /\ _snapshots' = SelectFrom(_snapshots, c) \o last'.ret
            /\ _snapshots'[Len(_snapshots')] = last'.ret[1]
            /\ \A i \in DOMAIN _snapshots' : _snapshots'[i].timestamp >= c]_vars
    /\ [](/\ \A i \in 1..(Len(_snapshots) - 1) :
                _snapshots[i].timestamp <= _snapshots[i + 1].timestamp
          /\ last.op = "get_history" =>
                /\ \A i \in 1..(Len(last.ret) - 1) :
                      last.ret[i].timestamp <= last.ret[i + 1].timestamp
                /\ last.window # None =>
                      \A i \in DOMAIN last.ret :
                          last.ret[i].timestamp >= last.now - last.window[1])

C15_PrunedAndKept ==
    /\ last.op = "take_snapshot"
    /\ last.pruned >= 1
    /\ Len(_snapshots) >= 2
    /\ _snapshots[1].timestamp = last.now - max_history_seconds

\* C16: for each of the eight strategies a call of get_priority changes no
\* field of any node and nothing of the strategy, and a second call on the
\* unchanged node returns the same key.
C16_GetPriorityReadsOnly ==
    [][last'.op = "get_priority" =>
        /\ UNCHANGED <<nodeVars, metaVars, lock_count, confVars, held, free>>
        /\ last'.key = (get_priority(strategy, value, last.node))']_vars

C16_Ranked ==
    /\ last.op = "get_priority"
    /\ Len(last.key) = 2
    /\ last.key[1] > 0
    /\ \E m \in Nodes \ {last.node} : value[m] # None

\* C17: within the prefetch engine a node's value goes from None to set
\* only in a tick step and only for a node that was prefetching just
\* before; request_prefetch never writes value, so no node goes from
\* HOST_RESIDENT to DEVICE_RESIDENT in one step.
C17_OnlyTickCommits ==
    [][/\ \A n \in Nodes :
            (value[n] = None /\ value'[n] # None) =>
                /\ last'.op = "tick"
                /\ is_prefetching[n]
       /\ IsRequest(last') => value' = value
       /\ \A n \in Nodes : HostResident(n) => value'[n] = None]_vars

C17_WentThroughPrefetching ==
    /\ last.op = "tick"
    /\ \E n \in Nodes :
        /\ DeviceResident(n)
        /\ prefetch_event[n] # None
        /\ \E m \in Nodes \ {n} : is_prefetching[m] /\ value[m] = None

\* C18: the event tick polls for a prefetching node is the one recorded on
\* the lane behind that node's outstanding copy: it has not signalled
\* before the copy was carried out, and while the copy is still on the lane
\* the event is behind it; so whenever tick commits a node, the copy of its
\* host_value into the committed slots has been carried out, however the
\* lane interleaves with the calls.
C18_CommitAfterCopy ==
    /\ [][last'.op = "tick" =>
            \A n \in Nodes :
                (is_prefetching[n] /\ ~is_prefetching'[n]) =>
                    /\ n \in copied
                    /\ value'[n] = reserved[n]]_vars
    /\ [](\A n \in Nodes :
            is_prefetching[n] =>
                /\ prefetch_event[n] # None
                /\ query(prefetch_event[n]) => n \in copied
                /\ ~query(prefetch_event[n]) =>
                        prefetch_event[n][1] \in StreamEvents
                /\ n \notin copied =>
                    \E i, j \in DOMAIN stream :
                        /\ i < j
                        /\ stream[i] = CopyItem(n, host_value[n],
                                                pending_gpu_indices[n])
                        /\ stream[j] = EventItem(prefetch_event[n][1]))

C18_CommittedWhileLaneBusy ==
    /\ last.op = "tick"
    /\ stream # <<>>
    /\ \E n \in Nodes :
        /\ DeviceResident(n)
        /\ n \in copied
        /\ value[n] = reserved[n]
        /\ Len(value[n]) > 0

\* The device slots node n holds: its pending indices while prefetching,
\* its value once resident.
HeldSlots(n) ==
    (IF pending_gpu_indices[n] = None THEN {} ELSE Range(pending_gpu_indices[n]))
    \cup (IF value[n] = None THEN {} ELSE Range(value[n]))

\* C19: no reserved device slot is lost or shared: every slot is either
\* free or held by exactly one node, as pending indices while the node is
\* prefetching and as its value after the commit; what a node holds is what
\* alloc_gpu returned for it, and request_prefetch reserves for a node only
\* when it has no reservation outstanding.
C19_SlotsNeitherLostNorShared ==
    /\ [](/\ free \cup UNION {HeldSlots(n) : n \in Nodes} = Slots
          /\ \A n \in Nodes :
                /\ free \cap HeldSlots(n) = {}
                /\ \A m \in Nodes \ {n} : HeldSlots(n) \cap HeldSlots(m) = {}
                /\ is_prefetching[n] <=> pending_gpu_indices[n] # None
                /\ is_prefetching[n] =>
                      /\ value[n] = None
                      /\ pending_gpu_indices[n] = reserved[n]
                /\ value[n] # None => value[n] = reserved[n])
    /\ [][(IsRequest(last') /\ last'.ret # None) =>
            /\ pending_gpu_indices[last'.node] = None
            /\ ~is_prefetching[last'.node]
            /\ Range(last'.ret) \subseteq free
            /\ Cardinality(Range(last'.ret)) = Len(last'.ret)]_vars

C19_PoolFullyHeld ==
    /\ last.op = "tick"
    /\ free = {}
    /\ \E n, m \in Nodes :
        /\ is_prefetching[n]
        /\ HeldSlots(n) # {}
        /\ DeviceResident(m)
        /\ HeldSlots(m) # {}

\* C20: the tracker's cumulative counters only grow.  Each record_match call
\* with 0 <= matched_tokens <= requested_tokens adds one to the request
\* count and its arguments to the token counters, and no other call changes
\* them, so the request count is the number of record_match calls; hit
\* tokens never exceed requested tokens, so the miss tokens reported by
\* to_dict and get_stats_dict are never negative; and the snapshots of the
\* history, which are in timestamp order, have non-decreasing hit_tokens,
\* requested_tokens and request_count.
C20_CountersOnlyGrow ==
    /\ [][/\ IF last'.op = "record_match"
             THEN /\ _total_requests' = _total_requests + 1
                  /\ _hit_tokens' = _hit_tokens + last'.matched
                  /\ _requested_tokens' = _requested_tokens + last'.requested
             ELSE UNCHANGED <<_total_requests, _hit_tokens, _requested_tokens>>
          /\ last'.op = "take_snapshot" /\ last'.ret # <<>> =>
                /\ last'.ret[1].request_count = _total_requests
                /\ last'.ret[1].hit_tokens = _hit_tokens
                /\ last'.ret[1].requested_tokens = _requested_tokens]_vars
    /\ [](/\ 0 <= _hit_tokens
          /\ _hit_tokens <= _requested_tokens
          /\ 0 <= _total_requests
          /\ get_stats_dict.total_miss_tokens >= 0
          /\ get_stats_dict.total_requests = _total_requests
          /\ \A i \in 1..Len(_snapshots) :
                /\ to_dict(_snapshots[i]).miss_tokens >= 0
                /\ _snapshots[i].request_count <= _total_requests
                /\ _snapshots[i].hit_tokens <= _hit_tokens
                /\ _snapshots[i].requested_tokens <= _requested_tokens
                /\ \A j \in i + 1..Len(_snapshots) :
                      /\ _snapshots[i].timestamp <= _snapshots[j].timestamp
                      /\ _snapshots[i].hit_tokens <= _snapshots[j].hit_tokens
                      /\ _snapshots[i].requested_tokens
                            <= _snapshots[j].requested_tokens
                      /\ _snapshots[i].request_count
                            <= _snapshots[j].request_count)

C20_MissBetweenSnapshots ==
    /\ Len(_snapshots) >= 2
    /\ _snapshots[1].request_count < _snapshots[2].request_count
    /\ _snapshots[1].requested_tokens < _snapshots[2].requested_tokens
    /\ to_dict(_snapshots[2]).miss_tokens > 0
====
